---- MODULE Spec2Model ----
(***************************************************************************)
(* Model of swww-manager (src/src/main.rs): the wallpaper rotation daemon. *)
(*                                                                         *)
(* One process runs init (the coordinator poll loop) and two spawned       *)
(* tasks, listen_loop (the control channel) and set_loop (the rotation     *)
(* scheduler), on a multi-threaded runtime; two more tasks wait for SIGINT *)
(* and SIGTERM.  The environment is the backend process swww-daemon, the   *)
(* clients that connect to the socket, and the signals.                    *)
(*                                                                         *)
(* Granularity: a task step runs from one suspension point (.await) to the *)
(* next.  The only memory the tasks share is the Mutex<bool>, taken for a  *)
(* single read or write, so each step holds one access to it at most.      *)
(* Time is not modelled: the warm-up, the ticks and the 100 ms polls may   *)
(* interleave in any order.                                                *)
(***************************************************************************)
EXTENDS Integers, Sequences, FiniteSets

\* ---------------------------------------------------------------- bounds

\* Connections that can wait to be accepted at one time.
MaxPending == 2
\* Regular files the directory scan can find.
MaxFiles == 2
\* Values rand::random::<usize>() is drawn from (0 .. MaxRand).
MaxRand == 2

\* ------------------------------------------------------------ wire lines

\* A line on the wire is a sequence of tokens: a word, "SP" (a blank),
\* "NL" (the newline) or "BAD" (bytes that are not UTF-8).
Whitespace == {"SP", "NL"}

\* send() writes the message followed by a newline.
send(msg) == <<msg, "NL">>

ClientMsgs == {"pause", "unpause", "kill"}

\* Lines of clients other than this program's own subcommands: a command in
\* the wrong case, nothing at all (the client disconnects: read_line returns
\* Ok(0) and the buffer stays empty), and bytes that are not UTF-8.
RawLines == { <<"Pause", "NL">>, <<>>, <<"BAD">> }

Lines == {send(m) : m \in ClientMsgs} \cup RawLines

RECURSIVE TrimStart(_)
TrimStart(s) ==
    IF s # <<>> /\ Head(s) \in Whitespace THEN TrimStart(Tail(s)) ELSE s

RECURSIVE TrimEnd(_)
TrimEnd(s) ==
    IF s # <<>> /\ s[Len(s)] \in Whitespace
    THEN TrimEnd(SubSeq(s, 1, Len(s) - 1))
    ELSE s

\* str::trim
Trim(s) == TrimEnd(TrimStart(s))

\* read_line fails on bytes that are not UTF-8.
ReadFails(line) == \E i \in 1..Len(line) : line[i] = "BAD"

\* Faulty variant of Classify: the match ignores the case of the command.
ClassifyAnyCase(line) ==
    LET t == Trim(line) IN
    IF t \in {<<"pause">>, <<"Pause">>} THEN "Pause"
    ELSE IF t \in {<<"unpause">>, <<"Unpause">>} THEN "Unpause"
    ELSE IF t \in {<<"kill">>, <<"Kill">>} THEN "Kill"
    ELSE "Unrecognized"

\* The match of listen_loop on the trimmed buffer.
Classify(line) ==
    LET t == Trim(line) IN
    IF t = <<"pause">> THEN "Pause"
    ELSE IF t = <<"unpause">> THEN "Unpause"
    ELSE IF t = <<"kill">> THEN "Kill"
    ELSE "Unrecognized"

\* ----------------------------------------------------------------- state

VARIABLES
    initPc,          \* where init (and main around it) is
    daemon_cmd,      \* the backend process swww-daemon
    files,           \* the file list captured by the scan
    paused,          \* the Mutex<bool>
    listen_task,     \* where listen_loop is
    socketFile,      \* what is at the socket path
    backlog,         \* connections made and not yet accepted, in order
    buf,             \* the connection being read
    set_task,        \* where set_loop is
    img,             \* the file of the invocation in flight
    sigint_handler,  \* TRUE once the SIGINT task has finished
    sigterm_handler, \* TRUE once the SIGTERM task has finished
    outcome,         \* why init returned
    result,          \* what init returned: "Ok" or "Err"
    exitCode,        \* the exit code of the process
    lock,            \* the task that holds the guard of the Mutex, if any
    \* history, read by the properties only
    sent,            \* whether the last connections made sent pause, unpause
    applied,         \* the last pause/unpause command applied
    first,           \* the terminal condition that became true first
    removed,         \* how often the socket file was removed
    bound,           \* this daemon's bind succeeded
    killRead         \* a kill was read while the daemon was Running

vars == <<initPc, daemon_cmd, files, paused, listen_task, socketFile, backlog,
          buf, set_task, img, sigint_handler, sigterm_handler, outcome,
          result, exitCode, lock, sent, applied, first, removed, bound,
          killRead>>

NoImg == 0
NoLine == <<"-">>

ListenFinished == listen_task \in {"ok", "err"}
ListenLive == listen_task \in {"accept", "read"}
SetFinished == set_task \in {"err", "panicked"}
\* Faulty variant of Signalled: only the SIGINT task is looked at.
SignalledIntOnly == sigint_handler
\* sigterm_handler.is_finished() || sigint_handler.is_finished()
Signalled == sigint_handler \/ sigterm_handler
Polling == initPc = "poll"
\* Running: the coordinator polls and no terminal condition holds yet.
Running ==
    /\ Polling
    /\ ~Signalled
    /\ daemon_cmd = "alive"
    /\ ~ListenFinished
    /\ ~SetFinished
Decided == initPc \in {"returned", "exited"}
Terminated == initPc = "exited"

\* The first terminal condition to become true, while none was.
NoteFirst(c) ==
    first' = IF first = "none" /\ ~Decided THEN c ELSE first

Init ==
    /\ initPc = "spawn"
    /\ daemon_cmd = "none"
    /\ files = <<>>
    /\ paused = FALSE
    /\ listen_task = "unspawned"
    /\ socketFile \in {"none", "foreign"}
    /\ backlog = <<>>
    /\ buf = NoLine
    /\ set_task = "unspawned"
    /\ img = NoImg
    /\ sigint_handler = FALSE
    /\ sigterm_handler = FALSE
    /\ outcome = "none"
    /\ result = "none"
    /\ exitCode = -1
    /\ lock = "free"
    /\ sent = "other"
    /\ applied = "none"
    /\ first = "none"
    /\ removed = 0
    /\ bound = FALSE
    /\ killRead = FALSE

\* ------------------------------------------------------ scoped releases

\* Faulty variant of DropChild: a Child spawned without kill_on_drop is left
\* running.
DropChildNoKill(c) == c

\* Dropping daemon_cmd: kill_on_drop(true) kills a backend that still runs
\* and does nothing to one that has exited.
DropChild(c) == IF c = "alive" THEN "killed" ELSE c

\* Faulty variant of DropListener: the file is left behind.
DropListenerKeepFile ==
    /\ backlog' = <<>>
    /\ UNCHANGED <<socketFile, removed>>

\* Drop for DropUnixListener: the file is removed, and the pending
\* connections go with the listener.
DropListener ==
    /\ socketFile' = "none"
    /\ removed' = removed + 1
    /\ backlog' = <<>>

\* init returns: its locals are dropped, daemon_cmd among them.
Return(o, r) ==
    /\ initPc' = "returned"
    /\ outcome' = o
    /\ result' = r
    /\ daemon_cmd' = DropChild(daemon_cmd)

\* ------------------------------------------------------------------ init

\* process::Command::new("swww-daemon").kill_on_drop(true).spawn()?
SpawnBackend ==
    /\ initPc = "spawn"
    /\ \/ /\ daemon_cmd' = "alive"
          /\ initPc' = "scan"
          /\ UNCHANGED <<outcome, result>>
       \/ Return("StartupFailed", "Err")
    /\ UNCHANGED <<files, paused, listen_task, socketFile, backlog, buf,
                   set_task, img, sigint_handler, sigterm_handler, exitCode,
                   sent, applied, first, removed, bound, killRead, lock>>

\* fs::read_dir(dir)? ... .collect()
ScanDir ==
    /\ initPc = "scan"
    /\ \/ /\ \E n \in 0..MaxFiles : files' = [i \in 1..n |-> i]
          /\ initPc' = "tasks"
          /\ UNCHANGED <<outcome, result, daemon_cmd>>
       \/ /\ Return("StartupFailed", "Err")
          /\ UNCHANGED files
    /\ UNCHANGED <<paused, listen_task, socketFile, backlog, buf, set_task,
                   img, sigint_handler, sigterm_handler, exitCode, sent,
                   applied, first, removed, bound, killRead, lock>>

\* The flag is created false and the two tasks are spawned.
SpawnTasks ==
    /\ initPc = "tasks"
    /\ paused' = FALSE
    /\ listen_task' = "start"
    /\ set_task' = "warmup"
    /\ initPc' = "poll"
    /\ UNCHANGED <<daemon_cmd, files, socketFile, backlog, buf, img,
                   sigint_handler, sigterm_handler, outcome, result, exitCode,
                   sent, applied, first, removed, bound, killRead, lock>>

\* Faulty variant of PollOutcome: the backend is asked before the signals.
PollOutcomeBackendFirst ==
    IF daemon_cmd # "alive" THEN <<"BackendCrashed", "Err">>
    ELSE IF Signalled THEN <<"Signaled", "Ok">>
    ELSE IF ListenFinished
         THEN IF listen_task = "ok" THEN <<"ClientKill", "Ok">>
              ELSE <<"ChannelFailed", "Err">>
    ELSE IF SetFinished THEN <<"SchedulerFailed", "Err">>
    ELSE <<"none", "none">>

\* Faulty variant of PollOutcome: the backend is not looked at.
PollOutcomeIgnoresBackend ==
    IF Signalled THEN <<"Signaled", "Ok">>
    ELSE IF ListenFinished
         THEN IF listen_task = "ok" THEN <<"ClientKill", "Ok">>
              ELSE <<"ChannelFailed", "Err">>
    ELSE IF SetFinished THEN <<"SchedulerFailed", "Err">>
    ELSE <<"none", "none">>

\* Faulty variant of PollOutcome: the control channel is asked before the
\* backend.
PollOutcomeListenFirst ==
    IF Signalled THEN <<"Signaled", "Ok">>
    ELSE IF ListenFinished
         THEN IF listen_task = "ok" THEN <<"ClientKill", "Ok">>
              ELSE <<"ChannelFailed", "Err">>
    ELSE IF daemon_cmd # "alive" THEN <<"BackendCrashed", "Err">>
    ELSE IF SetFinished THEN <<"SchedulerFailed", "Err">>
    ELSE <<"none", "none">>

\* One pass of the coordinator's loop body: the checks in their order.
PollOutcome ==
    IF Signalled THEN <<"Signaled", "Ok">>
    ELSE IF daemon_cmd # "alive" THEN <<"BackendCrashed", "Err">>
    ELSE IF ListenFinished
         THEN IF listen_task = "ok" THEN <<"ClientKill", "Ok">>
              ELSE <<"ChannelFailed", "Err">>
    ELSE IF SetFinished THEN <<"SchedulerFailed", "Err">>
    ELSE <<"none", "none">>

\* ticker.tick().await and the four checks.
Poll ==
    /\ initPc = "poll"
    /\ IF PollOutcome[1] = "none"
       THEN UNCHANGED <<initPc, outcome, result, daemon_cmd>>
       ELSE Return(PollOutcome[1], PollOutcome[2])
    /\ UNCHANGED <<files, paused, listen_task, socketFile, backlog, buf,
                   set_task, img, sigint_handler, sigterm_handler, exitCode,
                   sent, applied, first, removed, bound, killRead, lock>>

\* main prints the error, if any, and returns: the exit code is 0.
ExitCode(r) == 0

\* Faulty variant of DropTasks: the process exits without dropping its tasks.
LeakTasks ==
    /\ listen_task' = IF listen_task \in {"start", "accept", "read"}
                      THEN "aborted" ELSE listen_task
    /\ set_task' = IF set_task \in {"warmup", "waitTick", "awaitOutput"}
                   THEN "aborted" ELSE set_task
    /\ UNCHANGED <<socketFile, removed, backlog>>

\* The runtime is dropped: the tasks still running are dropped at their
\* suspension points, and the listener goes with listen_loop.
DropTasks ==
    /\ listen_task' = IF listen_task \in {"start", "accept", "read"}
                      THEN "aborted" ELSE listen_task
    /\ set_task' = IF set_task \in {"warmup", "waitTick", "awaitOutput"}
                   THEN "aborted" ELSE set_task
    /\ IF ListenLive THEN DropListener
       ELSE UNCHANGED <<socketFile, removed, backlog>>

\* main returns, the runtime with it, and the process exits.
MainReturn ==
    /\ initPc = "returned"
    /\ initPc' = "exited"
    /\ exitCode' = ExitCode(result)
    /\ DropTasks
    /\ UNCHANGED <<daemon_cmd, files, paused, buf, img, sigint_handler,
                   sigterm_handler, outcome, result, sent, applied, first,
                   bound, killRead, lock>>

\* ----------------------------------------------------------- listen_loop

RuntimeUp == initPc # "exited"

\* Faulty variant of Apply: pause flips the flag instead of setting it.
ApplyToggle(msg, p) ==
    IF msg = "Pause" THEN ~p
    ELSE IF msg = "Unpause" THEN FALSE
    ELSE p

\* The arms of the match that write the flag.
Apply(msg, p) ==
    IF msg = "Pause" THEN TRUE
    ELSE IF msg = "Unpause" THEN FALSE
    ELSE p

\* Faulty variant of ListenBind: the DropUnixListener is built around the
\* path before the bind, so a bind that fails drops it and removes the file.
ListenBindDropsOnFailure ==
    /\ RuntimeUp
    /\ listen_task = "start"
    /\ \E envSet \in BOOLEAN :
          IF envSet /\ socketFile = "none"
          THEN /\ socketFile' = "own"
               /\ bound' = TRUE
               /\ listen_task' = "accept"
               /\ UNCHANGED <<first, removed>>
          ELSE /\ listen_task' = "err"
               /\ NoteFirst("Listen")
               /\ socketFile' = "none"
               /\ removed' = removed + 1
               /\ UNCHANGED bound
    /\ UNCHANGED <<initPc, daemon_cmd, files, paused, backlog, buf, set_task,
                   img, sigint_handler, sigterm_handler, outcome, result,
                   exitCode, sent, applied, killRead, lock>>

\* get_socket_location()? and DropUnixListener::bind(..)?: the variable may
\* be unset, and bind fails when something is at the path.
ListenBind ==
    /\ RuntimeUp
    /\ listen_task = "start"
    /\ \E envSet \in BOOLEAN :
          IF envSet /\ socketFile = "none"
          THEN /\ socketFile' = "own"
               /\ bound' = TRUE
               /\ listen_task' = "accept"
               /\ UNCHANGED first
          ELSE /\ listen_task' = "err"
               /\ NoteFirst("Listen")
               /\ UNCHANGED <<socketFile, bound>>
    /\ UNCHANGED <<initPc, daemon_cmd, files, paused, backlog, buf, set_task,
                   img, sigint_handler, sigterm_handler, outcome, result,
                   exitCode, sent, applied, removed, killRead, lock>>

\* Faulty variant of TakeOldest: the newest connection is served first.
TakeNewest ==
    /\ buf' = backlog[Len(backlog)]
    /\ backlog' = SubSeq(backlog, 1, Len(backlog) - 1)

\* accept() hands out the pending connections in the order they were made.
TakeOldest ==
    /\ buf' = Head(backlog)
    /\ backlog' = Tail(backlog)

\* Faulty variant of ListenAccept: a connection is accepted while the one
\* before it is still being read, and takes its place.
ListenAcceptWhileReading ==
    /\ RuntimeUp
    /\ listen_task \in {"accept", "read"}
    /\ backlog # <<>>
    /\ TakeOldest
    /\ listen_task' = "read"
    /\ UNCHANGED <<initPc, daemon_cmd, files, paused, socketFile, set_task,
                   img, sigint_handler, sigterm_handler, outcome, result,
                   exitCode, sent, applied, first, removed, bound, killRead,
                   lock>>

\* socket.listener.accept().await? returning a connection.
ListenAccept ==
    /\ RuntimeUp
    /\ listen_task = "accept"
    /\ backlog # <<>>
    /\ TakeOldest
    /\ listen_task' = "read"
    /\ UNCHANGED <<initPc, daemon_cmd, files, paused, socketFile, set_task,
                   img, sigint_handler, sigterm_handler, outcome, result,
                   exitCode, sent, applied, first, removed, bound, killRead,
                   lock>>

\* socket.listener.accept().await? returning an error.
ListenAcceptFails ==
    /\ RuntimeUp
    /\ listen_task = "accept"
    /\ listen_task' = "err"
    /\ DropListener
    /\ NoteFirst("Listen")
    /\ UNCHANGED <<initPc, daemon_cmd, files, paused, buf, set_task, img,
                   sigint_handler, sigterm_handler, outcome, result, exitCode,
                   sent, applied, bound, killRead, lock>>

\* reader.read_line(&mut buf).await? and the match on the trimmed line.
ListenReadLine ==
    /\ RuntimeUp
    /\ listen_task = "read"
    /\ buf' = NoLine
    /\ IF ReadFails(buf)
       THEN /\ listen_task' = "err"
            /\ DropListener
            /\ NoteFirst("Listen")
            /\ UNCHANGED <<paused, applied, killRead>>
       ELSE IF Classify(buf) = "Kill"
       THEN /\ listen_task' = "ok"
            /\ DropListener
            /\ NoteFirst("Listen")
            /\ killRead' = (killRead \/ Running)
            /\ UNCHANGED <<paused, applied>>
       ELSE /\ listen_task' = "accept"
            /\ paused' = Apply(Classify(buf), paused)
            /\ applied' = IF Classify(buf) \in {"Pause", "Unpause"}
                          THEN Classify(buf) ELSE applied
            /\ UNCHANGED <<socketFile, removed, backlog, first, killRead>>
    /\ UNCHANGED <<initPc, daemon_cmd, files, set_task, img, sigint_handler,
                   sigterm_handler, outcome, result, exitCode, sent, bound,
                   lock>>

\* ------------------------------------------------------------- set_loop

\* rand::random::<usize>() % files.len()
Pick(r, n) == r % n

\* tokio::time::sleep(5 s) and the creation of the ticker.
SetWarmup ==
    /\ RuntimeUp
    /\ set_task = "warmup"
    /\ set_task' = "waitTick"
    /\ UNCHANGED <<initPc, daemon_cmd, files, paused, listen_task, socketFile,
                   backlog, buf, img, sigint_handler, sigterm_handler, outcome,
                   result, exitCode, sent, applied, first, removed, bound, killRead,
                   lock>>

\* Faulty variant of TickSkips: the tick does not look at the flag.
TickSkipsNever == FALSE

\* if paused.lock().is_ok_and(|p| *p) { continue; }
TickSkips == paused

\* ticker.tick().await, the check of the flag, the choice of a file and the
\* start of `swww img`.  The remainder by files.len() panics on an empty list.
SetTick ==
    /\ RuntimeUp
    /\ set_task = "waitTick"
    /\ IF TickSkips
       THEN UNCHANGED <<set_task, img, first>>
       ELSE IF Len(files) = 0
       THEN /\ set_task' = "panicked"
            /\ NoteFirst("Set")
            /\ UNCHANGED img
       ELSE /\ \E r \in 0..MaxRand : img' = files[Pick(r, Len(files)) + 1]
            /\ set_task' = "awaitOutput"
            /\ UNCHANGED first
    /\ UNCHANGED <<initPc, daemon_cmd, files, paused, listen_task, socketFile,
                   backlog, buf, sigint_handler, sigterm_handler, outcome,
                   result, exitCode, sent, applied, removed, bound, killRead,
                   lock>>

SetterResults == {"success", "nonzero", "nonzeroBadStderr", "ioError"}

\* .output().await? and the report: an I/O error ends the loop, a non-zero
\* status is logged, and from_utf8(..).unwrap() panics on a stderr that is
\* not UTF-8.
SetOutput ==
    /\ RuntimeUp
    /\ set_task = "awaitOutput"
    /\ img' = NoImg
    /\ \E st \in SetterResults :
          IF st = "ioError"
          THEN set_task' = "err" /\ NoteFirst("Set")
          ELSE IF st = "nonzeroBadStderr"
          THEN set_task' = "panicked" /\ NoteFirst("Set")
          ELSE set_task' = "waitTick" /\ UNCHANGED first
    /\ UNCHANGED <<initPc, daemon_cmd, files, paused, listen_task, socketFile,
                   backlog, buf, sigint_handler, sigterm_handler, outcome,
                   result, exitCode, sent, applied, removed, bound, killRead,
                   lock>>

\* ---------------------------------------------------------- environment

\* What the last connections made have sent, after one more sends line:
\* "pause", "pause, unpause" or anything else.
SentAfter(line) ==
    IF line = send("pause") THEN "pause"
    ELSE IF line = send("unpause") /\ sent = "pause" THEN "pause, unpause"
    ELSE "other"

\* A client connects: UnixStream::connect succeeds while the listener is
\* bound and its queue has room.  What the client writes is read when the
\* connection is served.
ClientConnect ==
    /\ socketFile = "own"
    /\ ListenLive
    /\ Len(backlog) < MaxPending
    /\ \E line \in Lines :
          /\ backlog' = Append(backlog, line)
          /\ sent' = SentAfter(line)
    /\ UNCHANGED <<initPc, daemon_cmd, files, paused, listen_task, socketFile,
                   buf, set_task, img, sigint_handler, sigterm_handler,
                   outcome, result, exitCode, applied, first, removed,
                   bound, killRead, lock>>

\* SIGINT arrives while init runs: the task around ctrl_c() finishes.  (Once
\* init has returned nothing reads the handlers any more.)
SigInt ==
    /\ ~Decided
    /\ ~sigint_handler
    /\ sigint_handler' = TRUE
    /\ NoteFirst("Signal")
    /\ UNCHANGED <<initPc, daemon_cmd, files, paused, listen_task, socketFile,
                   backlog, buf, set_task, img, sigterm_handler, outcome,
                   result, exitCode, sent, applied, removed, bound, killRead,
                   lock>>

\* SIGTERM arrives while init runs: the task around stream.recv() finishes.
SigTerm ==
    /\ ~Decided
    /\ ~sigterm_handler
    /\ sigterm_handler' = TRUE
    /\ NoteFirst("Signal")
    /\ UNCHANGED <<initPc, daemon_cmd, files, paused, listen_task, socketFile,
                   backlog, buf, set_task, img, sigint_handler, outcome,
                   result, exitCode, sent, applied, removed, bound, killRead,
                   lock>>

\* The backend exits by itself.
BackendExits ==
    /\ daemon_cmd = "alive"
    /\ daemon_cmd' = "exited"
    /\ NoteFirst("Backend")
    /\ UNCHANGED <<initPc, files, paused, listen_task, socketFile, backlog,
                   buf, set_task, img, sigint_handler, sigterm_handler,
                   outcome, result, exitCode, sent, applied, removed,
                   bound, killRead, lock>>

\* -------------------------------------------------------- specifications

\* The steps of the main task: init, and main around it.
MainTask == SpawnBackend \/ ScanDir \/ SpawnTasks \/ Poll \/ MainReturn

Next ==
    \/ MainTask
    \/ ListenBind
    \/ ListenAccept
    \/ ListenAcceptFails
    \/ ListenReadLine
    \/ SetWarmup
    \/ SetTick
    \/ SetOutput
    \/ ClientConnect
    \/ SigInt
    \/ SigTerm
    \/ BackendExits

Spec == Init /\ [][Next]_vars

\* The runtime keeps the main task running: its next step, a poll that has
\* something to return among them, is not postponed for ever.
FairSpec == Spec /\ WF_vars(MainTask)

\* ------------------------------------------------- the lock, step by step

\* The steps above take and release the guard of the Mutex within one step.
\* Here each access to the flag is two steps, paused.lock() returning the
\* guard and the access that ends with the drop of the guard, so that the
\* two tasks, which run on different worker threads, interleave around them.
\* (No step panics with the guard held, so the Mutex is never poisoned.)

\* A task is between two of its suspension points, at the lock.
AtLock(t) == t \in {"lock", "locked"}

\* reader.read_line(&mut buf).await? and the match on the trimmed line, up
\* to paused.lock() in the arms "pause" and "unpause".
ListenRead ==
    /\ RuntimeUp
    /\ listen_task = "read"
    /\ IF ReadFails(buf)
       THEN /\ listen_task' = "err"
            /\ buf' = NoLine
            /\ DropListener
            /\ NoteFirst("Listen")
            /\ UNCHANGED killRead
       ELSE IF Classify(buf) = "Kill"
       THEN /\ listen_task' = "ok"
            /\ buf' = NoLine
            /\ DropListener
            /\ NoteFirst("Listen")
            /\ killRead' = (killRead \/ Running)
       ELSE IF Classify(buf) = "Unrecognized"
       THEN /\ listen_task' = "accept"
            /\ buf' = NoLine
            /\ UNCHANGED <<socketFile, removed, backlog, first, killRead>>
       ELSE /\ listen_task' = "lock"
            /\ UNCHANGED <<buf, socketFile, removed, backlog, first, killRead>>
    /\ UNCHANGED <<initPc, daemon_cmd, files, paused, set_task, img,
                   sigint_handler, sigterm_handler, outcome, result, exitCode,
                   lock, sent, applied, bound>>

\* paused.lock() returns in listen_loop: the Mutex was free.
ListenLock ==
    /\ listen_task = "lock"
    /\ lock = "free"
    /\ lock' = "listen"
    /\ listen_task' = "locked"
    /\ UNCHANGED <<initPc, daemon_cmd, files, paused, socketFile, backlog,
                   buf, set_task, img, sigint_handler, sigterm_handler,
                   outcome, result, exitCode, sent, applied, first, removed,
                   bound, killRead>>

\* *guard = true or *guard = false; the guard is dropped at the end of the
\* arm, and the loop goes back to accept.
ListenWrite ==
    /\ listen_task = "locked"
    /\ paused' = Apply(Classify(buf), paused)
    /\ applied' = Classify(buf)
    /\ lock' = "free"
    /\ buf' = NoLine
    /\ listen_task' = "accept"
    /\ UNCHANGED <<initPc, daemon_cmd, files, socketFile, backlog, set_task,
                   img, sigint_handler, sigterm_handler, outcome, result,
                   exitCode, sent, first, removed, bound, killRead>>

\* ticker.tick().await returns in set_loop, which goes on to paused.lock().
SetTickFires ==
    /\ RuntimeUp
    /\ set_task = "waitTick"
    /\ set_task' = "lock"
    /\ UNCHANGED <<initPc, daemon_cmd, files, paused, listen_task, socketFile,
                   backlog, buf, img, sigint_handler, sigterm_handler,
                   outcome, result, exitCode, lock, sent, applied, first,
                   removed, bound, killRead>>

\* paused.lock() returns in set_loop: the Mutex was free.
SetLock ==
    /\ set_task = "lock"
    /\ lock = "free"
    /\ lock' = "set"
    /\ set_task' = "locked"
    /\ UNCHANGED <<initPc, daemon_cmd, files, paused, listen_task, socketFile,
                   backlog, buf, img, sigint_handler, sigterm_handler,
                   outcome, result, exitCode, sent, applied, first, removed,
                   bound, killRead>>

\* Faulty variant of SetCheck: the guard is bound to a name and lives on,
\* over the continue and over .output().await.
SetCheckKeepsGuard ==
    /\ set_task = "locked"
    /\ IF TickSkips
       THEN /\ set_task' = "waitTick"
            /\ UNCHANGED <<img, first>>
       ELSE IF Len(files) = 0
       THEN /\ set_task' = "panicked"
            /\ NoteFirst("Set")
            /\ UNCHANGED img
       ELSE /\ \E r \in 0..MaxRand : img' = files[Pick(r, Len(files)) + 1]
            /\ set_task' = "awaitOutput"
            /\ UNCHANGED first
    /\ UNCHANGED <<initPc, daemon_cmd, files, paused, listen_task, socketFile,
                   backlog, buf, sigint_handler, sigterm_handler, outcome,
                   result, exitCode, lock, sent, applied, removed, bound,
                   killRead>>

\* .is_ok_and(|p| *p) reads the flag and consumes the guard; then continue,
\* or the choice of a file and the start of `swww img`.
SetCheck ==
    /\ set_task = "locked"
    /\ lock' = "free"
    /\ IF TickSkips
       THEN /\ set_task' = "waitTick"
            /\ UNCHANGED <<img, first>>
       ELSE IF Len(files) = 0
       THEN /\ set_task' = "panicked"
            /\ NoteFirst("Set")
            /\ UNCHANGED img
       ELSE /\ \E r \in 0..MaxRand : img' = files[Pick(r, Len(files)) + 1]
            /\ set_task' = "awaitOutput"
            /\ UNCHANGED first
    /\ UNCHANGED <<initPc, daemon_cmd, files, paused, listen_task, socketFile,
                   backlog, buf, sigint_handler, sigterm_handler, outcome,
                   result, exitCode, sent, applied, removed, bound, killRead>>

\* The drop of the runtime waits for the worker threads: a task that is
\* running is dropped at its next suspension point, not at the lock.
MainReturnAfterWorkers ==
    /\ ~AtLock(listen_task)
    /\ ~AtLock(set_task)
    /\ MainReturn

LockMainTask ==
    SpawnBackend \/ ScanDir \/ SpawnTasks \/ Poll \/ MainReturnAfterWorkers

LockNext ==
    \/ LockMainTask
    \/ ListenBind
    \/ ListenAccept
    \/ ListenAcceptFails
    \/ ListenRead
    \/ ListenLock
    \/ ListenWrite
    \/ SetWarmup
    \/ SetTickFires
    \/ SetLock
    \/ SetCheck
    \/ SetOutput
    \/ ClientConnect
    \/ SigInt
    \/ SigTerm
    \/ BackendExits

LockSpec == Init /\ [][LockNext]_vars

\* A worker thread that runs a task is not stopped: the access that holds
\* the guard ends, and a thread blocked in lock() is woken when the guard is
\* dropped, before the other task, which has to pass a suspension point
\* first, can ask for it again and again.
LockFairSpec ==
    /\ LockSpec
    /\ WF_vars(ListenWrite)
    /\ WF_vars(SetCheck)
    /\ SF_vars(ListenLock)
    /\ SF_vars(SetLock)

\* ------------------------------------------------------------ properties

Graceful == {"Signaled", "ClientKill"}
Fatal == {"BackendCrashed", "SchedulerFailed", "ChannelFailed"}

C1_Final ==
    /\ Terminated
    /\ socketFile = "none"
    /\ removed = 1
    /\ \/ outcome = "ClientKill" /\ result = "Ok" /\ daemon_cmd = "killed"
       \/ outcome = "Signaled" /\ result = "Ok" /\ Signalled
       \/ outcome = "BackendCrashed" /\ result = "Err" /\ daemon_cmd = "exited"

C3_SocketRemovedOnce ==
    (Terminated /\ bound) => (socketFile = "none" /\ removed = 1)

\* The removal by the drop of the runtime: a signal ended the daemon while
\* the control channel was still listening.
C3_Witness ==
    /\ Terminated
    /\ bound
    /\ outcome = "Signaled"
    /\ listen_task = "aborted"
    /\ removed = 1

\* C4: in every Terminated state of a daemon that spawned the backend the
\* backend is not alive, and the kill on drop leaves a backend that has
\* already exited as it is.
C4_BackendReleased ==
    /\ [](Terminated => daemon_cmd # "alive")
    /\ [][(daemon_cmd = "exited") => (daemon_cmd' = "exited")]_vars

\* The startup error after the spawn: the scan fails, the backend is killed.
C4_Witness ==
    /\ Terminated
    /\ outcome = "StartupFailed"
    /\ daemon_cmd = "killed"

\* The control channel is listening and has served every connection made.
AllServed ==
    /\ listen_task = "accept"
    /\ backlog = <<>>
    /\ buf = NoLine

\* The step of listen_loop that applies the command m.
Applies(m) ==
    /\ listen_task = "read"
    /\ listen_task' = "accept"
    /\ buf = send(m)

\* C5: after each pause/unpause command the flag is true iff the command
\* applied last was pause, and applying the command that was applied last
\* once more changes nothing.
C5_FlagIsLastCommand ==
    /\ [](applied # "none" => (paused <=> applied = "Pause"))
    /\ [][(Applies("pause") /\ applied = "Pause") => (paused' = paused)]_vars
    /\ [][(Applies("unpause") /\ applied = "Unpause") => (paused' = paused)]_vars

\* pause was applied, and a second pause is about to be.
C5_Witness ==
    /\ listen_task = "read"
    /\ buf = send("pause")
    /\ applied = "Pause"
    /\ paused

\* The last two connections made are a pause and then an unpause.
PauseThenUnpause == sent = "pause, unpause"

\* C6: when a client has sent pause and then unpause and the control channel
\* has processed both, the flag is false, whatever the rotation scheduler is
\* doing.
C6_PauseThenUnpause ==
    (PauseThenUnpause /\ AllServed) => ~paused

\* Both were processed while an invocation of the setter was in flight.
C6_Witness ==
    /\ PauseThenUnpause
    /\ AllServed
    /\ set_task = "awaitOutput"
    /\ ~paused

\* C7 as stated: with an empty file list no tick crashes or ends the
\* rotation scheduler, and the daemon never ends with SchedulerFailed.
C7_EmptyListIsHarmless ==
    (initPc \in {"poll", "returned", "exited"} /\ Len(files) = 0) =>
        (set_task \notin {"panicked", "err"} /\ outcome # "SchedulerFailed")

\* A tick starts an invocation of the setter.
StartsInvocation == set_task = "waitTick" /\ set_task' = "awaitOutput"

\* C8: a tick between the application of a pause and the application of the
\* next unpause starts no invocation; a pause applied while an invocation is
\* in flight does not interrupt it.
C8_PauseStopsInvocations ==
    /\ [][StartsInvocation => (~paused /\ applied # "Pause")]_vars
    /\ [][(set_task = "awaitOutput" /\ ~paused /\ paused') =>
             (set_task' = "awaitOutput" /\ img' = img)]_vars

\* A pause was applied while an invocation was in flight.
C8_Witness ==
    /\ set_task = "awaitOutput"
    /\ paused
    /\ applied = "Pause"

\* The terminal condition an outcome names.
ConditionOf(o) ==
    IF o = "Signaled" THEN "Signal"
    ELSE IF o = "BackendCrashed" THEN "Backend"
    ELSE IF o \in {"ClientKill", "ChannelFailed"} THEN "Listen"
    ELSE IF o = "SchedulerFailed" THEN "Set"
    ELSE "none"

Decides == initPc = "poll" /\ initPc' = "returned"

C10_ExitStatusTellsOutcome ==
    Terminated =>
        /\ (outcome \in Graceful) => (exitCode = 0)
        /\ (outcome \in Fatal) => (exitCode # 0)

\* The step of listen_loop in which the bind fails on a path that exists.
BindFails ==
    /\ listen_task = "start"
    /\ listen_task' = "err"
    /\ socketFile = "foreign"

\* C11 as stated: at the point the bind fails the backend has not been
\* started and the rotation scheduler has not been spawned, and the daemon
\* then ends with a fatal outcome.
C11_BindFailsBeforeStart ==
    /\ [][BindFails => (daemon_cmd = "none" /\ set_task = "unspawned")]_vars
    /\ []((Terminated /\ listen_task = "err" /\ ~bound) => outcome \in Fatal)

\* The step of listen_loop in which read_line returns an error.
ReadErrorStep ==
    /\ listen_task = "read"
    /\ ReadFails(buf)
    /\ buf' # buf

\* C12 as stated: a read error on an accepted connection leaves the flag as
\* it is and the control channel accepting the next connection.
C12_ReadErrorIsRecoverable ==
    [][ReadErrorStep => (listen_task' = "accept" /\ paused' = paused)]_vars

\* The step of set_loop in which the invocation in flight completes with an
\* exit status, zero or not: .output() returned Ok, not an I/O error.
SetterExits ==
    /\ set_task = "awaitOutput"
    /\ set_task' \notin {"awaitOutput", "aborted", "err"}

\* C13 as stated: an invocation that completes with an exit status, non-zero
\* included, leaves the rotation scheduler waiting for its next tick.
C13_NonZeroExitIsHarmless ==
    [][SetterExits => (set_task' = "waitTick")]_vars

\* The trimmed lines that are commands.
Commands == {<<m>> : m \in ClientMsgs}

\* The step of listen_loop that processes a line that was read and is not a
\* command.
UnrecognizedStep ==
    /\ listen_task = "read"
    /\ ~ReadFails(buf)
    /\ Trim(buf) \notin Commands
    /\ buf' # buf

\* C14: processing a line that, trimmed, is not pause, unpause or kill (a
\* command in the wrong case and the empty line included) leaves the flag
\* unchanged, the control channel accepting, and the coordinator where it is.
C14_UnrecognizedIsIgnored ==
    [][UnrecognizedStep =>
          /\ paused' = paused
          /\ listen_task' = "accept"
          /\ UNCHANGED <<initPc, outcome, result, socketFile, backlog,
                         daemon_cmd, set_task>>]_vars

\* Every connection made was served, a pause was applied, and the last line
\* sent was neither pause (sent) nor unpause (applied) nor kill nor
\* unreadable (the control channel is accepting): it was not a command, and
\* the flag is still true.
C14_Witness ==
    /\ AllServed
    /\ sent = "other"
    /\ applied = "Pause"
    /\ paused

\* The step of listen_loop in which accept returns a connection.
AcceptsConnection == listen_task = "accept" /\ listen_task' = "read"

\* C15 as stated: once the coordinator has decided to terminate, no command
\* is applied to the flag, no connection is accepted and no invocation of
\* the setter is started.
C15_NothingRunsAfterDecision ==
    [][Decided =>
          /\ paused' = paused
          /\ applied' = applied
          /\ ~AcceptsConnection
          /\ ~StartsInvocation]_vars

\* The suspension points of the two tasks: accept, read_line, the sleep,
\* the tick and the wait for the subprocess.
ListenSuspended == listen_task \in {"accept", "read"}
SetSuspended == set_task \in {"warmup", "waitTick", "awaitOutput"}

\* The guard is held by a task that is at the access to the flag, and by no
\* task that is suspended, has ended or was dropped.
LockHeldOnlyAtAccess ==
    /\ lock = "listen" => listen_task = "locked"
    /\ lock = "set" => set_task = "locked"
    /\ listen_task = "locked" => lock = "listen"
    /\ set_task = "locked" => lock = "set"

\* C16: no task holds the lock of the flag at a suspension point (accept,
\* read_line, the wait for the subprocess, the sleep, the tick); the holder
\* is always at its access, which ends with the release, so a task that
\* asks for the lock is eventually granted it.
C16_LockNeverHeldSuspended ==
    /\ [](ListenSuspended => lock # "listen")
    /\ [](SetSuspended => lock # "set")
    /\ []LockHeldOnlyAtAccess
    /\ (listen_task = "lock") ~> (lock = "listen")
    /\ (set_task = "lock") ~> (lock = "set")

\* Both tasks are at the lock: the rotation scheduler holds it and the
\* control channel, with a pause to apply, waits for it.
C16_Witness ==
    /\ lock = "set"
    /\ set_task = "locked"
    /\ listen_task = "lock"
    /\ buf = send("pause")

\* The connection being served stays as it is in this step: it has not
\* delivered its line and has not been closed.
StillServing == listen_task = "read" /\ buf' = buf

\* C17: the control channel serves one connection at a time, in the order
\* the connections were made: a connection is accepted only when none is
\* being served, it is the oldest one waiting, and while the one being
\* served has not delivered its line no command is applied, no kill ends
\* the loop and no later connection is taken from the queue.
C17_OneConnectionAtATime ==
    /\ [](listen_task = "read" => buf # NoLine)
    /\ [](listen_task = "accept" => buf = NoLine)
    /\ [][AcceptsConnection =>
            (buf = NoLine /\ buf' = Head(backlog) /\ backlog' = Tail(backlog))]_vars
    /\ [][StillServing =>
            /\ paused' = paused
            /\ applied' = applied
            /\ listen_task' \in {"read", "aborted"}
            /\ \/ backlog' = backlog
               \/ \E line \in Lines : backlog' = Append(backlog, line)
               \/ listen_task' = "aborted"]_vars
    /\ [][(listen_task = "read" /\ buf' # buf) => (buf' = NoLine)]_vars

\* An unpause is being read from a client that has not delivered it yet; a
\* kill and a pause, sent later, wait in the queue, and the flag is still
\* as the earlier pause left it.
C17_Witness ==
    /\ listen_task = "read"
    /\ buf = send("unpause")
    /\ backlog = <<send("kill"), send("pause")>>
    /\ paused
    /\ applied = "Pause"

\* The coordinator polls and a signal has been received.
SignalPending == Polling /\ (sigint_handler \/ sigterm_handler)

\* C18: after SIGINT or SIGTERM is received by a daemon that polls, the
\* coordinator's next poll decides Signaled with result Ok, whatever the
\* control channel and the rotation scheduler are doing, and the daemon
\* reaches Terminated with that outcome.
C18_SignalEndsGracefully ==
    /\ [][(SignalPending /\ initPc' # initPc) =>
            (initPc' = "returned" /\ outcome' = "Signaled" /\ result' = "Ok")]_vars
    /\ SignalPending ~>
            (Terminated /\ outcome = "Signaled" /\ result = "Ok")

\* Ended by SIGTERM while a client that had been accepted had not delivered
\* its line and an invocation of the setter was in flight.
C18_Witness ==
    /\ Terminated
    /\ outcome = "Signaled"
    /\ result = "Ok"
    /\ sigterm_handler
    /\ ~sigint_handler
    /\ listen_task = "aborted"
    /\ buf # NoLine
    /\ set_task = "aborted"
    /\ img # NoImg

\* The terminal conditions a poll can find, as the state shows them.
SignalSeen == sigint_handler \/ sigterm_handler
BackendDead == daemon_cmd = "exited"
ChannelEnded == listen_task \in {"ok", "err"}
SchedulerEnded == set_task \in {"err", "panicked"}

\* C19: when the poll that decides finds several terminal conditions, the
\* earlier one in the order signal, backend death, control channel exit,
\* rotation scheduler exit gives the outcome, whichever became true first:
\* a signal wins over a dead backend and over both tasks, a dead backend
\* over a processed kill and over both tasks, the control channel over the
\* rotation scheduler.
C19_CheckOrderDecides ==
    [][Decides =>
          /\ (SignalSeen /\ (BackendDead \/ ChannelEnded \/ SchedulerEnded)) =>
                (outcome' = "Signaled" /\ result' = "Ok")
          /\ (~SignalSeen /\ BackendDead /\ (ChannelEnded \/ SchedulerEnded)) =>
                (outcome' = "BackendCrashed" /\ result' = "Err")
          /\ (~SignalSeen /\ ~BackendDead /\ ChannelEnded /\ SchedulerEnded) =>
                \/ listen_task = "ok" /\ outcome' = "ClientKill" /\ result' = "Ok"
                \/ listen_task = "err" /\ outcome' = "ChannelFailed" /\ result' = "Err"]_vars

\* The backend died first, a signal arrived before the next poll, and the
\* outcome is the graceful one.
C19_Witness ==
    /\ Decided
    /\ first = "Backend"
    /\ daemon_cmd = "exited"
    /\ outcome = "Signaled"
    /\ result = "Ok"

\* C20: a daemon whose bind fails because something is at the socket path
\* never removes that file: the file another process put there stays, and
\* the only daemon that removes a socket file is one whose bind succeeded.
C20_ForeignSocketKept ==
    /\ [][(socketFile = "foreign") => (socketFile' = "foreign")]_vars
    /\ [](removed > 0 => bound)
    /\ [](socketFile = "own" => bound)

\* The second start has ended on the failed bind, and the file of the first
\* daemon is still there.
C20_Witness ==
    /\ Terminated
    /\ listen_task = "err"
    /\ outcome = "ChannelFailed"
    /\ ~bound
    /\ socketFile = "foreign"
    /\ removed = 0

====
